---- MODULE Spec2Model ----
(***************************************************************************)
(* Authorization and booking-lifecycle core of the Agape backend.          *)
(*                                                                         *)
(* Three specifications share the variables below:                         *)
(*   Spec      tokens, login, the admin guard and admin user moderation    *)
(*   SpecAcct  register / updateSelf as interleaved check and write steps  *)
(*   SpecBook  adminTransition on bookings as guard, fetch and save steps  *)
(*                                                                         *)
(* A handler is split into one step per store access (each `await` on the  *)
(* store is a point where another request may run); a handler that reads   *)
(* the store once is one step, taken at that read.                         *)
(***************************************************************************)
EXTENDS Integers, Sequences, FiniteSets, Bags, TLC

VARIABLES
    users,      \* User collection: ObjectId -> document
    now,        \* wall clock, in days
    tokens,     \* the token each user's client holds: that of the user's latest login
    apc,        \* admin request p: "idle" | "admitted" (guard passed, handler pending)
    areq,       \* admin request p: req.user.id attached by the guard
    last,       \* the request handled by the latest step, and the status it got
    created,    \* number of User documents ever created (ObjectIds are never reused)
    rpc,        \* account request p: position in register / updateSelf
    rreq,       \* account request p: its body, caller and response code
    bookings,   \* Booking collection: ObjectId -> document
    admitted,   \* adminTransition requests past the guard, not yet at findById
    saves       \* adminTransition requests between findById and save(): a bag

vars == <<users, now, tokens, apc, areq, last, created, rpc, rreq, bookings, admitted, saves>>

-----------------------------------------------------------------------------
(* Bounds of the model *)

TickDays == 8        \* the clock advances in steps of this many days
MaxTime == 8         \* the clock stops here
NumAdminReq == 1     \* concurrent admin moderation requests
NumAcctReq == 2      \* register / updateSelf requests
NumBookReq == 2      \* concurrent adminTransition requests

(* Program constants *)

JWT_EXPIRES == 7     \* "7d"
NullDate == -1       \* a Date field holding null
InvalidDate == -2    \* new Date(x) with x unparseable: getTime() is NaN

-----------------------------------------------------------------------------
(* Strings that the code transforms are sequences of one-character strings *)

LowerChar(c) ==
    CASE c = "A" -> "a"
      [] c = "B" -> "b"
      [] c = "C" -> "c"
      [] OTHER -> c

ToLowerCase(s) == [i \in DOMAIN s |-> LowerChar(s[i])]

RECURSIVE TrimStart(_)
TrimStart(s) == IF s # <<>> /\ Head(s) = " " THEN TrimStart(Tail(s)) ELSE s

RECURSIVE TrimEnd(_)
TrimEnd(s) ==
    IF s # <<>> /\ s[Len(s)] = " " THEN TrimEnd(SubSeq(s, 1, Len(s) - 1)) ELSE s

Trim(s) == TrimEnd(TrimStart(s))

\* the schema setters of User.email (lowercase, trim), applied by mongoose
\* to documents, updates and query filters
EmailSetter(s) == Trim(ToLowerCase(s))

\* the schema setter of User.username (trim)
UsernameSetter(s) == Trim(s)

-----------------------------------------------------------------------------
(* ObjectIds.  A one-digit hex string stands for the 24-digit one: the      *)
(* canonical form (toString) is lower case, and the upper-case spelling of  *)
(* the same digits is a valid id string that casts to the same ObjectId.    *)

HexDigits == {"1", "2", "3", "4", "a", "b", "c", "d", "e", "A", "B", "C"}

IsValidObjectId(s) == s \in HexDigits

CastObjectId(s) == LowerChar(s)

ObjectIdToString(oid) == oid

\* the ObjectIds new User / new Booking documents get, in order of creation
OidOrder == <<"a", "b", "c", "d", "e">>

BookingOidOrder == <<"1", "2", "3">>

-----------------------------------------------------------------------------
(* bcrypt *)

BcryptHash(pw) == <<"$2b$", pw>>

BcryptCompare(pw, hash) == hash = BcryptHash(pw)

-----------------------------------------------------------------------------
(* Dates *)

ParseDate(s) ==
    CASE s = "day4" -> 4
      [] s = "day8" -> 8
      [] OTHER -> InvalidDate

IsNaNDate(d) == d = InvalidDate

ToISOString(d) ==
    CASE d = 4 -> "day4"
      [] d = 8 -> "day8"

Falsy(s) == s = "" \/ s = "null"

-----------------------------------------------------------------------------
(* Numbers of a query string.  A number is a record: NaN, or a value.       *)

NaN == [nan |-> TRUE, val |-> 0]

Num(v) == [nan |-> FALSE, val |-> v]

DigitValue ==
    ("0" :> 0) @@ ("1" :> 1) @@ ("2" :> 2) @@ ("3" :> 3) @@ ("4" :> 4)
    @@ ("5" :> 5) @@ ("6" :> 6) @@ ("7" :> 7) @@ ("8" :> 8) @@ ("9" :> 9)

\* the value of the longest prefix of digits
RECURSIVE DigitsPrefix(_, _)
DigitsPrefix(s, acc) ==
    IF s = <<>> \/ Head(s) \notin DOMAIN DigitValue THEN acc
    ELSE DigitsPrefix(Tail(s), acc * 10 + DigitValue[Head(s)])

\* parseInt(s, 10): leading blanks, a sign, then the digits up to the first
\* character that is none; NaN when there is no digit
ParseInt(s) ==
    LET t == TrimStart(s)
        signed == t # <<>> /\ Head(t) \in {"-", "+"}
        digits == IF signed THEN Tail(t) ELSE t
        sign == IF signed /\ Head(t) = "-" THEN -1 ELSE 1
    IN IF digits = <<>> \/ Head(digits) \notin DOMAIN DigitValue THEN NaN
       ELSE Num(sign * DigitsPrefix(digits, 0))

\* Math.max, Math.min, a - b, a * b: NaN when an argument is NaN
MathMax(a, b) ==
    IF a.nan \/ b.nan THEN NaN ELSE IF a.val >= b.val THEN a ELSE b

MathMin(a, b) ==
    IF a.nan \/ b.nan THEN NaN ELSE IF a.val <= b.val THEN a ELSE b

Minus(a, b) == IF a.nan \/ b.nan THEN NaN ELSE Num(a.val - b.val)

Times(a, b) == IF a.nan \/ b.nan THEN NaN ELSE Num(a.val * b.val)

\* x || dflt on a query parameter: absent and empty are falsy
OrDefault(x, dflt) == IF x = <<>> THEN dflt ELSE x

\* page, limit and skip of the two listings
PageOf(query) == MathMax(Num(1), ParseInt(OrDefault(query.page, <<"1">>)))

LimitOf(query, dflt) ==
    MathMin(Num(100), MathMax(Num(5), ParseInt(OrDefault(query.limit, dflt))))

SkipOf(page, limit) == Times(Minus(page, Num(1)), limit)

\* sort({createdAt: -1}).skip(skip).limit(limit) over the ids in order of
\* creation
RECURSIVE NewestFirst(_, _)
NewestFirst(order, ids) ==
    IF order = <<>> THEN <<>>
    ELSE IF Head(order) \in ids
    THEN Append(NewestFirst(Tail(order), ids), Head(order))
    ELSE NewestFirst(Tail(order), ids)

PageSlice(sorted, skip, limit) ==
    SubSeq(sorted, skip + 1, IF skip + limit < Len(sorted) THEN skip + limit ELSE Len(sorted))

\* the query strings of the two listings
PageInputs == {<<>>, <<"0">>, <<"2">>, <<"-", "3">>, <<"a", "b">>}

LimitInputs == {<<>>, <<"3">>, <<"2", "0", "0">>, <<"7", "x">>, <<"x">>}

Queries == {[page |-> pg, limit |-> lm] : pg \in PageInputs, lm \in LimitInputs}

\* a NaN skip or limit goes to the driver: the query runs unpaged or is
\* refused, and the catch block answers 500
ListCodes(skip, limit) == IF skip.nan \/ limit.nan THEN {200, 500} ELSE {200}

Paged(sorted, skip, limit) ==
    IF skip.nan \/ limit.nan THEN sorted ELSE PageSlice(sorted, skip.val, limit.val)

\* the names of the fields of the listed documents
FieldsOf(docs) == UNION {DOMAIN d : d \in docs}

-----------------------------------------------------------------------------
(* User documents *)

Roles == {"member", "admin"}

DefaultBanReason == "No reason provided"

NewUser(email, username, passwordHash) ==
    [ email |-> EmailSetter(email),
      username |-> UsernameSetter(username),
      passwordHash |-> passwordHash,
      role |-> "member",
      isBanned |-> FALSE,
      banReason |-> "",
      bannedUntil |-> NullDate ]

FindByEmail(us, email) == {i \in DOMAIN us : us[i].email = EmailSetter(email)}

FindByUsername(us, username) ==
    {i \in DOMAIN us : us[i].username = UsernameSetter(username)}

Remove(f, k) == [i \in DOMAIN f \ {k} |-> f[i]]

\* sanitizeUser: the document as a plain object, passwordHash deleted
ToObject(user) == user

SanitizeUser(user) == [k \in DOMAIN user \ {"passwordHash"} |-> user[k]]

\* populate("user", "firstName lastName email username"): the owner's selected
\* fields, or null (here the empty object) when the owner is gone
PopulateSelect == {"firstName", "lastName", "email", "username"}

Populate(us, oid) ==
    IF oid \in DOMAIN us
    THEN [k \in DOMAIN us[oid] \cap PopulateSelect |-> us[oid][k]]
    ELSE <<>>

-----------------------------------------------------------------------------
(* Token service *)

NoId == ""

NoHeader == [id |-> NoId, role |-> "", exp |-> 0, sig |-> "none"]

Forged == [id |-> "a", role |-> "admin", exp |-> MaxTime + JWT_EXPIRES, sig |-> "bad"]

JwtSign(oid, role, t) ==
    [id |-> ObjectIdToString(oid), role |-> role, exp |-> t + JWT_EXPIRES, sig |-> "ok"]

JwtVerify(tok, t) == tok.sig = "ok" /\ t < tok.exp

\* the status the guard answers with, 0 when it calls next()
AdminAuthRoleOfToken(hdr, us, t) ==
    IF hdr = NoHeader THEN 401
    ELSE IF ~JwtVerify(hdr, t) THEN 401
    ELSE IF hdr.id = NoId THEN 401
    ELSE IF hdr.id \notin DOMAIN us THEN 401
    ELSE IF hdr.role # "admin" THEN 403
    ELSE 0

AdminAuth(hdr, us, t) ==
    IF hdr = NoHeader THEN 401
    ELSE IF ~JwtVerify(hdr, t) THEN 401
    ELSE IF hdr.id = NoId THEN 401
    ELSE IF hdr.id \notin DOMAIN us THEN 401
    ELSE IF us[hdr.id].role # "admin" THEN 403
    ELSE 0

-----------------------------------------------------------------------------
(* The log of the latest step: the request and the status it was answered  *)
(* with (0: the guard called next()).                                      *)

\* fields: the names of the fields of the user objects the response carries
NoLog ==
    [ op |-> "none", code |-> 0, hdr |-> NoHeader, actor |-> NoId, url |-> "", role |-> "",
      email |-> <<>>, password |-> <<>>, reason |-> "", until |-> "null", message |-> "",
      fields |-> {}, list |-> <<>>, page |-> Num(0), limit |-> Num(0), skip |-> Num(0) ]

Log(op, code, hdr) == [NoLog EXCEPT !.op = op, !.code = code, !.hdr = hdr]

-----------------------------------------------------------------------------
(* Inputs *)

PwA == <<"p", "a", "s", "s", "w", "d", "-", "a">>
PwB == <<"p", "a", "s", "s", "w", "d", "-", "b">>

SeedUsers ==
    ( "a" :> [NewUser(<<"a">>, <<"u", "a">>, BcryptHash(PwA)) EXCEPT !.role = "admin"] )
    @@ ( "b" :> NewUser(<<"b">>, <<"u", "b">>, BcryptHash(PwB)) )

AdminProcs == 1..NumAdminReq

\* the admin requests in flight when two admins moderate each other: one more
ModProcs == 1..(NumAdminReq + 1)

LoginEmails == {<<"A", " ">>, <<"b">>, <<"c">>}
LoginPasswords == {<<>>, PwA, PwB}
UrlIds == {"a", "A", "b", "z"}
RoleInputs == {"member", "admin", "owner"}
BanBodies ==
    { [reason |-> "", until |-> "null"],
      [reason |-> "spam", until |-> "day4"],
      [reason |-> "", until |-> "soon"] }

-----------------------------------------------------------------------------
(* Clock *)

Tick ==
    /\ now + TickDays <= MaxTime
    /\ now' = now + TickDays
    /\ UNCHANGED <<users, tokens, apc, areq, last, created, rpc, rreq, bookings, admitted, saves>>

-----------------------------------------------------------------------------
(* POST /api/users/login: one store read (findOne), then local work *)

LoginBanExpires(email, password, us, t) ==
    IF email = <<>> \/ password = <<>> THEN 400
    ELSE LET found == FindByEmail(us, Trim(ToLowerCase(email)))
         IN IF found = {} THEN 401
            ELSE LET user == us[CHOOSE i \in found : TRUE]
                 IN IF user.isBanned /\ (user.bannedUntil = NullDate \/ t <= user.bannedUntil)
                    THEN 403
                    ELSE IF ~BcryptCompare(password, user.passwordHash) THEN 401
                    ELSE 200

\* the status login answers with
LoginStatus(email, password, us, t) ==
    IF email = <<>> \/ password = <<>> THEN 400
    ELSE LET found == FindByEmail(us, Trim(ToLowerCase(email)))
         IN IF found = {} THEN 401
            ELSE LET user == us[CHOOSE i \in found : TRUE]
                 IN IF user.isBanned THEN 403
                    ELSE IF ~BcryptCompare(password, user.passwordHash) THEN 401
                    ELSE 200

\* the message login answers with
LoginMessage(code) ==
    CASE code = 400 -> "Email and password required."
      [] code = 401 -> "Invalid credentials."
      [] code = 403 -> "Account is banned."
      [] OTHER -> "Login successful."

Login(email, password) ==
    LET code == LoginStatus(email, password, users, now)
        found == FindByEmail(users, Trim(ToLowerCase(email)))
        uid == CHOOSE i \in found : TRUE
        user == users[uid]
        token == JwtSign(uid, user.role, now)
    IN /\ tokens' = IF code = 200 THEN [tokens EXCEPT ![uid] = token] ELSE tokens
       /\ last' = [ Log("login", code, IF code = 200 THEN token ELSE NoHeader)
                      EXCEPT !.email = email, !.password = password,
                             !.message = LoginMessage(code),
                             !.fields = IF code = 200 THEN DOMAIN SanitizeUser(user)
                                        ELSE IF code = 403 THEN {"reason", "until"}
                                        ELSE {},
                             !.reason = IF code = 403
                                        THEN (IF user.banReason # "" THEN user.banReason
                                              ELSE DefaultBanReason)
                                        ELSE "",
                             !.until = IF code = 403 /\ user.bannedUntil # NullDate
                                       THEN ToISOString(user.bannedUntil)
                                       ELSE "null" ]
       /\ UNCHANGED <<users, now, apc, areq, created, rpc, rreq, bookings, admitted, saves>>

-----------------------------------------------------------------------------
(* adminAuth, run by router.use(adminAuth) before every admin handler: one  *)
(* store read (findById).  An admitted request runs its handler in a later  *)
(* step; its URL and body are read by the handler.                          *)

AdminGuard(p, hdr) ==
    LET code == AdminAuth(hdr, users, now)
    IN /\ apc[p] = "idle"
       /\ apc' = IF code = 0 THEN [apc EXCEPT ![p] = "admitted"] ELSE apc
       /\ areq' = IF code = 0 THEN [areq EXCEPT ![p] = hdr.id] ELSE areq
       /\ last' = Log("adminAuth", code, hdr)
       /\ UNCHANGED <<users, now, tokens, created, rpc, rreq, bookings, admitted, saves>>

\* req.user?.id === id
IsSelf(actorId, url) == actorId = url

\* GET /api/admin/users: the page of lean documents, passwordHash deleted
ListUsers(p, query) ==
    LET page == PageOf(query)
        limit == LimitOf(query, <<"2", "0">>)
        skip == SkipOf(page, limit)
        list == Paged(NewestFirst(OidOrder, DOMAIN users), skip, limit)
    IN /\ apc[p] = "admitted"
       /\ apc' = [apc EXCEPT ![p] = "idle"]
       /\ areq' = [areq EXCEPT ![p] = NoId]
       /\ \E code \in ListCodes(skip, limit) :
             last' = [ Log("listUsers", code, NoHeader)
                         EXCEPT !.actor = areq[p],
                                !.page = page, !.limit = limit, !.skip = skip,
                                !.list = IF code = 200 THEN list ELSE <<>>,
                                !.fields = IF code = 200
                                           THEN FieldsOf({ Remove(users[list[i]], "passwordHash") :
                                                             i \in DOMAIN list })
                                           ELSE {} ]
       /\ UNCHANGED <<users, now, tokens, created, rpc, rreq, bookings, admitted, saves>>

\* DELETE /api/admin/users/:id
DeleteUserStatus(actorId, url, us) ==
    IF ~IsValidObjectId(url) THEN 400
    ELSE IF IsSelf(actorId, url) THEN 400
    ELSE IF CastObjectId(url) \notin DOMAIN us THEN 404
    ELSE 200

DeleteUser(p, url) ==
    LET code == DeleteUserStatus(areq[p], url, users)
    IN /\ apc[p] = "admitted"
       /\ users' = IF code = 200 THEN Remove(users, CastObjectId(url)) ELSE users
       /\ apc' = [apc EXCEPT ![p] = "idle"]
       /\ areq' = [areq EXCEPT ![p] = NoId]
       /\ last' = [Log("deleteUser", code, NoHeader) EXCEPT !.actor = areq[p], !.url = url]
       /\ UNCHANGED <<now, tokens, created, rpc, rreq, bookings, admitted, saves>>

\* POST /api/admin/users/:id/ban
BannedUntilOf(until) == IF Falsy(until) THEN NullDate ELSE ParseDate(until)

BanUserStatus(actorId, url, until, us) ==
    IF ~IsValidObjectId(url) THEN 400
    ELSE IF IsSelf(actorId, url) THEN 400
    ELSE IF IsNaNDate(BannedUntilOf(until)) THEN 500    \* CastError of the update
    ELSE IF CastObjectId(url) \notin DOMAIN us THEN 404
    ELSE 200

BanUpdateNoDefault(user, reason, until) ==
    [user EXCEPT !.isBanned = TRUE, !.banReason = reason, !.bannedUntil = BannedUntilOf(until)]

BanUpdate(user, reason, until) ==
    [ user EXCEPT !.isBanned = TRUE,
                  !.banReason = IF reason # "" THEN reason ELSE DefaultBanReason,
                  !.bannedUntil = BannedUntilOf(until) ]

BanUser(p, url, reason, until) ==
    LET code == BanUserStatus(areq[p], url, until, users)
        oid == CastObjectId(url)
    IN /\ apc[p] = "admitted"
       /\ users' = IF code = 200
                   THEN [users EXCEPT ![oid] = BanUpdate(@, reason, until)]
                   ELSE users
       /\ apc' = [apc EXCEPT ![p] = "idle"]
       /\ areq' = [areq EXCEPT ![p] = NoId]
       /\ last' = [ Log("banUser", code, NoHeader)
                      EXCEPT !.actor = areq[p], !.url = url,
                             !.fields = IF code = 200
                                        THEN {"id", "isBanned", "banReason", "bannedUntil"}
                                        ELSE {} ]
       /\ UNCHANGED <<now, tokens, created, rpc, rreq, bookings, admitted, saves>>

\* POST /api/admin/users/:id/unban
UnbanUserStatus(url, us) ==
    IF ~IsValidObjectId(url) THEN 400
    ELSE IF CastObjectId(url) \notin DOMAIN us THEN 404
    ELSE 200

UnbanUpdate(user) ==
    [user EXCEPT !.isBanned = FALSE, !.banReason = "", !.bannedUntil = NullDate]

UnbanUser(p, url) ==
    LET code == UnbanUserStatus(url, users)
        oid == CastObjectId(url)
    IN /\ apc[p] = "admitted"
       /\ users' = IF code = 200 THEN [users EXCEPT ![oid] = UnbanUpdate(@)] ELSE users
       /\ apc' = [apc EXCEPT ![p] = "idle"]
       /\ areq' = [areq EXCEPT ![p] = NoId]
       /\ last' = [ Log("unbanUser", code, NoHeader)
                      EXCEPT !.actor = areq[p], !.url = url,
                             !.fields = IF code = 200 THEN {"id", "isBanned"} ELSE {} ]
       /\ UNCHANGED <<now, tokens, created, rpc, rreq, bookings, admitted, saves>>

\* PATCH /api/admin/users/:id/role
SetRoleStatus(actorId, url, role, us) ==
    IF role \notin Roles THEN 400
    ELSE IF ~IsValidObjectId(url) THEN 400
    ELSE IF IsSelf(actorId, url) /\ role # "admin" THEN 400
    ELSE IF CastObjectId(url) \notin DOMAIN us THEN 404
    ELSE 200

SetRole(p, url, role) ==
    LET code == SetRoleStatus(areq[p], url, role, users)
        oid == CastObjectId(url)
    IN /\ apc[p] = "admitted"
       /\ users' = IF code = 200 THEN [users EXCEPT ![oid].role = role] ELSE users
       /\ apc' = [apc EXCEPT ![p] = "idle"]
       /\ areq' = [areq EXCEPT ![p] = NoId]
       /\ last' = [ Log("setRole", code, NoHeader)
                      EXCEPT !.actor = areq[p], !.url = url, !.role = role,
                             !.fields = IF code = 200 THEN {"id", "role"} ELSE {} ]
       /\ UNCHANGED <<now, tokens, created, rpc, rreq, bookings, admitted, saves>>

-----------------------------------------------------------------------------
(* Account requests: POST /api/users/register and PUT /api/users/me.  Each  *)
(* process serves one request; every store access is a step of its own.     *)

AcctProcs == 1..NumAcctReq

\* a body field that is not sent (undefined)
Undefined == <<"undefined">>

\* extra: the paths of an update other than email and username
NoAcctReq ==
    [ kind |-> "none", caller |-> NoId, email |-> Undefined, username |-> Undefined,
      password |-> Undefined, oldPassword |-> Undefined, extra |-> <<>>,
      code |-> 0, message |-> "", fields |-> {} ]

\* register bodies; some carry role and isBanned, which the handler does not read
RegisterBodies ==
    { [email |-> e, username |-> u, password |-> PwA, role |-> r, isBanned |-> TRUE] :
        e \in {<<"c">>, <<"C", " ">>, <<"b">>}, u \in {<<"u", "c">>, <<"u", "d">>},
        r \in {"admin"} }
    \cup { [email |-> <<"c">>, username |-> <<"u", "c">>, password |-> <<"s", "h", "o", "r", "t">>],
           [email |-> <<>>, username |-> <<"u", "c">>, password |-> PwA] }

\* updateSelf bodies: a body holds the fields that were sent
UpdateBodies ==
    { [email |-> <<"C">>],
      [email |-> <<"b">>, role |-> "admin"],
      [email |-> <<>>],
      [username |-> <<"u", "c">>, isBanned |-> FALSE, banReason |-> "", bannedUntil |-> NullDate],
      [username |-> <<"u", "b">>, passwordHash |-> BcryptHash(PwA)] }

\* the fields of the allow-list that the model keeps
Allowed == {"username", "email"}

\* the loop over the allow-list: updates holds the allowed fields the body defines
AllowAnyField(body) == body

AllowedUpdates(body) == [k \in DOMAIN body \cap Allowed |-> body[k]]

\* updates[k], or undefined
Field(updates, k) == IF k \in DOMAIN updates THEN updates[k] ELSE Undefined

\* the unique indexes on email and username: would storing these values under
\* _id self violate one of them
NoUniqueIndex(us, self, email, username) == FALSE

DuplicateKey(us, self, email, username) ==
    \E i \in DOMAIN us \ {self} : us[i].email = email \/ us[i].username = username

\* a response: status, message and the names of the fields of the user object
\* it carries
Reply(code, message) == [code |-> code, message |-> message, fields |-> {}]

ReplyUser(code, message, user) ==
    [code |-> code, message |-> message, fields |-> DOMAIN user]

\* the validation of the body, before any store access
RegisterValidate(body) ==
    IF body.email = <<>> \/ body.username = <<>> \/ body.password = <<>>
    THEN Reply(400, "Missing required fields.")
    ELSE IF Len(body.password) < 8
    THEN Reply(400, "Password must be at least 8 characters.")
    ELSE Reply(0, "")

\* the error save() throws for a violated unique index: E11000, keyValue
\* naming the indexed field
DuplicateKeyError(us, email) ==
    [ code |-> 11000,
      key |-> IF \E i \in DOMAIN us : us[i].email = email THEN "email" ELSE "username" ]

\* register's catch block: the answer to an error thrown by save()
RegisterCatchNoDupKey(err) == Reply(500, "Server error during signup.")

RegisterCatch(err) ==
    IF err.code = 11000
    THEN Reply(409, IF err.key = "email" THEN "email already exists."
                    ELSE "username already exists.")
    ELSE Reply(500, "Server error during signup.")

\* account requests are numbered in their order of arrival
Arrives(p) == rpc[p] = "idle" /\ \A q \in AcctProcs : q < p => rpc[q] # "idle"

Answered(req, reply) ==
    [req EXCEPT !.code = reply.code, !.message = reply.message, !.fields = reply.fields]

Finish(p, reply) ==
    /\ rpc' = [rpc EXCEPT ![p] = "done"]
    /\ rreq' = [rreq EXCEPT ![p] = Answered(@, reply)]

\* validation, then findOne({ email })
RegisterCheckEmail(p, body) ==
    LET invalid == RegisterValidate(body)
        req == [NoAcctReq EXCEPT !.kind = "register", !.email = body.email,
                                 !.username = body.username, !.password = body.password]
    IN /\ Arrives(p)
       /\ IF invalid.code # 0
          THEN /\ rpc' = [rpc EXCEPT ![p] = "done"]
               /\ rreq' = [rreq EXCEPT ![p] = Answered(req, invalid)]
          ELSE IF FindByEmail(users, ToLowerCase(body.email)) # {}
          THEN /\ rpc' = [rpc EXCEPT ![p] = "done"]
               /\ rreq' = [rreq EXCEPT ![p] =
                             Answered(req, Reply(409, "Email already registered."))]
          ELSE /\ rpc' = [rpc EXCEPT ![p] = "regUsername"]
               /\ rreq' = [rreq EXCEPT ![p] = req]
       /\ UNCHANGED <<users, now, tokens, apc, areq, last, created, bookings, admitted, saves>>

\* findOne({ username })
RegisterCheckUsername(p) ==
    /\ rpc[p] = "regUsername"
    /\ IF FindByUsername(users, rreq[p].username) # {}
       THEN Finish(p, Reply(409, "Username already taken."))
       ELSE /\ rpc' = [rpc EXCEPT ![p] = "regSave"]
            /\ rreq' = rreq
    /\ UNCHANGED <<users, now, tokens, apc, areq, last, created, bookings, admitted, saves>>

\* bcrypt.hash, new User(...), save()
RegisterSave(p) ==
    LET doc == NewUser(ToLowerCase(rreq[p].email), rreq[p].username,
                       BcryptHash(rreq[p].password))
        oid == OidOrder[created + 1]
    IN /\ rpc[p] = "regSave"
       /\ IF DuplicateKey(users, oid, doc.email, doc.username)
          THEN /\ Finish(p, RegisterCatch(DuplicateKeyError(users, doc.email)))
               /\ UNCHANGED <<users, created>>
          ELSE /\ Finish(p, ReplyUser(201, "Account created.", SanitizeUser(doc)))
               /\ users' = (oid :> doc) @@ users
               /\ created' = created + 1
       /\ UNCHANGED <<now, tokens, apc, areq, last, bookings, admitted, saves>>

\* the auth middleware: 401 unless the bearer token verifies
Auth(hdr, t) ==
    IF hdr = NoHeader THEN Reply(401, "Unauthorized")
    ELSE IF ~JwtVerify(hdr, t) THEN Reply(401, "Invalid or expired token")
    ELSE Reply(0, "")

\* auth, the allow-list, then findOne({ email, _id: { $ne: userId } })
UpdateCheckEmail(p, hdr, body) ==
    LET updates == AllowedUpdates(body)
        email == Field(updates, "email")
        req == [NoAcctReq EXCEPT !.kind = "updateSelf", !.caller = hdr.id,
                                 !.email = email, !.username = Field(updates, "username"),
                                 !.extra = [k \in DOMAIN updates \ Allowed |-> updates[k]]]
        checked == email # Undefined /\ email # <<>>
    IN /\ Arrives(p)
       /\ IF Auth(hdr, now).code # 0
          THEN /\ rpc' = [rpc EXCEPT ![p] = "done"]
               /\ rreq' = [rreq EXCEPT ![p] = Answered(req, Auth(hdr, now))]
          ELSE IF hdr.id = NoId
          THEN /\ rpc' = [rpc EXCEPT ![p] = "done"]
               /\ rreq' = [rreq EXCEPT ![p] = Answered(req, Reply(401, "Unauthorized"))]
          ELSE IF checked /\ FindByEmail(users, ToLowerCase(email)) \ {hdr.id} # {}
          THEN /\ rpc' = [rpc EXCEPT ![p] = "done"]
               /\ rreq' = [rreq EXCEPT ![p] =
                             Answered(req, Reply(409, "Email already in use."))]
          ELSE /\ rpc' = [rpc EXCEPT ![p] = "updUsername"]
               /\ rreq' = [rreq EXCEPT ![p] =
                             IF checked THEN [req EXCEPT !.email = ToLowerCase(email)]
                             ELSE req]
       /\ UNCHANGED <<users, now, tokens, apc, areq, last, created, bookings, admitted, saves>>

\* findOne({ username, _id: { $ne: userId } })
UpdateCheckUsername(p) ==
    LET req == rreq[p]
        checked == req.username # Undefined /\ req.username # <<>>
    IN /\ rpc[p] = "updUsername"
       /\ IF checked /\ FindByUsername(users, req.username) \ {req.caller} # {}
          THEN Finish(p, Reply(409, "Username already in use."))
          ELSE /\ rpc' = [rpc EXCEPT ![p] = "updWrite"]
               /\ rreq' = rreq
       /\ UNCHANGED <<users, now, tokens, apc, areq, last, created, bookings, admitted, saves>>

\* the document after $set of every path of updates, schema setters applied
ApplyUpdates(user, req) ==
    [ k \in DOMAIN user |->
        IF k = "email" /\ req.email # Undefined THEN EmailSetter(req.email)
        ELSE IF k = "username" /\ req.username # Undefined THEN UsernameSetter(req.username)
        ELSE IF k \in DOMAIN req.extra THEN req.extra[k]
        ELSE user[k] ]

\* findByIdAndUpdate(userId, updates, { new: true, runValidators: true });
\* every error lands in the catch block, which answers 500
UpdateWrite(p) ==
    LET req == rreq[p]
        doc == ApplyUpdates(users[req.caller], req)
    IN /\ rpc[p] = "updWrite"
       /\ IF req.caller \notin DOMAIN users
          THEN Finish(p, Reply(404, "User not found")) /\ users' = users
          ELSE IF doc.email = <<>> \/ doc.username = <<>>        \* required validator
          THEN Finish(p, Reply(500, "Server error")) /\ users' = users
          ELSE IF DuplicateKey(users, req.caller, doc.email, doc.username)
          THEN Finish(p, Reply(500, "Server error")) /\ users' = users
          ELSE /\ Finish(p, ReplyUser(200, "Profile updated", SanitizeUser(doc)))
               /\ users' = [users EXCEPT ![req.caller] = doc]
       /\ UNCHANGED <<now, tokens, apc, areq, last, created, bookings, admitted, saves>>

-----------------------------------------------------------------------------
(* POST /api/users/change-password, DELETE /api/users/delete, GET /api/users/me *)

PwC == <<"p", "a", "s", "s", "w", "d", "-", "c">>

ChangePasswordBodies ==
    { [oldPassword |-> PwB, newPassword |-> PwC],
      [oldPassword |-> PwB, newPassword |-> PwB],
      [oldPassword |-> PwC, newPassword |-> PwA],
      [oldPassword |-> PwB, newPassword |-> <<"s", "h", "o", "r", "t">>],
      [oldPassword |-> <<>>, newPassword |-> PwC] }

\* the answer of change-password before its save(), code 0 when it goes on
ChangePasswordOldNotChecked(hdr, body, us, t) ==
    IF Auth(hdr, t).code # 0 THEN Auth(hdr, t)
    ELSE IF hdr.id = NoId THEN Reply(401, "Unauthorized")
    ELSE IF body.oldPassword = <<>> \/ body.newPassword = <<>>
    THEN Reply(400, "Old and new passwords required.")
    ELSE IF Len(body.newPassword) < 8
    THEN Reply(400, "New password must be at least 8 characters.")
    ELSE IF hdr.id \notin DOMAIN us THEN Reply(404, "User not found")
    ELSE Reply(0, "")

ChangePasswordCheck(hdr, body, us, t) ==
    IF Auth(hdr, t).code # 0 THEN Auth(hdr, t)
    ELSE IF hdr.id = NoId THEN Reply(401, "Unauthorized")
    ELSE IF body.oldPassword = <<>> \/ body.newPassword = <<>>
    THEN Reply(400, "Old and new passwords required.")
    ELSE IF Len(body.newPassword) < 8
    THEN Reply(400, "New password must be at least 8 characters.")
    ELSE IF hdr.id \notin DOMAIN us THEN Reply(404, "User not found")
    ELSE IF ~BcryptCompare(body.oldPassword, us[hdr.id].passwordHash)
    THEN Reply(401, "Old password incorrect.")
    ELSE Reply(0, "")

\* auth, validation, findById(userId).select("+passwordHash"), bcrypt.compare
ChangePasswordFetch(p, hdr, body) ==
    LET reply == ChangePasswordCheck(hdr, body, users, now)
        req == [NoAcctReq EXCEPT !.kind = "changePassword", !.caller = hdr.id,
                                 !.oldPassword = body.oldPassword,
                                 !.password = body.newPassword]
    IN /\ Arrives(p)
       /\ IF reply.code # 0
          THEN /\ rpc' = [rpc EXCEPT ![p] = "done"]
               /\ rreq' = [rreq EXCEPT ![p] = Answered(req, reply)]
          ELSE /\ rpc' = [rpc EXCEPT ![p] = "pwSave"]
               /\ rreq' = [rreq EXCEPT ![p] = req]
       /\ UNCHANGED <<users, now, tokens, apc, areq, last, created, bookings, admitted, saves>>

\* user.passwordHash = await bcrypt.hash(newPassword, BCRYPT_ROUNDS)
SetPasswordUnhashed(user, newPassword) == [user EXCEPT !.passwordHash = <<"", newPassword>>]

SetPassword(user, newPassword) == [user EXCEPT !.passwordHash = BcryptHash(newPassword)]

\* bcrypt.hash, user.save(): $set of passwordHash on the fetched _id; save()
\* throws when the document is gone, and the catch block answers 500
ChangePasswordSave(p) ==
    LET req == rreq[p]
    IN /\ rpc[p] = "pwSave"
       /\ IF req.caller \notin DOMAIN users
          THEN Finish(p, Reply(500, "Server error")) /\ users' = users
          ELSE /\ Finish(p, Reply(200, "Password updated."))
               /\ users' = [users EXCEPT ![req.caller] = SetPassword(@, req.password)]
       /\ UNCHANGED <<now, tokens, apc, areq, last, created, bookings, admitted, saves>>

\* DELETE /api/users/delete: auth, findByIdAndDelete(userId)
DeleteSelfReply(hdr, t) ==
    IF Auth(hdr, t).code # 0 THEN Auth(hdr, t)
    ELSE IF hdr.id = NoId THEN Reply(401, "Unauthorized")
    ELSE Reply(200, "Account deleted.")

DeleteSelf(hdr) ==
    LET reply == DeleteSelfReply(hdr, now)
    IN /\ users' = IF reply.code = 200 /\ hdr.id \in DOMAIN users
                   THEN Remove(users, hdr.id)
                   ELSE users
       /\ last' = [Log("deleteSelf", reply.code, hdr) EXCEPT !.message = reply.message]
       /\ UNCHANGED <<now, tokens, apc, areq, created, rpc, rreq, bookings, admitted, saves>>

\* GET /api/users/me: auth, findById(userId)
GetSelfReply(hdr, us, t) ==
    IF Auth(hdr, t).code # 0 THEN Auth(hdr, t)
    ELSE IF hdr.id = NoId THEN Reply(401, "Unauthorized")
    ELSE IF hdr.id \notin DOMAIN us THEN Reply(404, "User not found")
    ELSE ReplyUser(200, "", SanitizeUser(us[hdr.id]))

GetSelf(hdr) ==
    LET reply == GetSelfReply(hdr, users, now)
    IN /\ last' = [ Log("getSelf", reply.code, hdr)
                      EXCEPT !.message = reply.message, !.fields = reply.fields ]
       /\ UNCHANGED <<users, now, tokens, apc, areq, created, rpc, rreq, bookings, admitted, saves>>

-----------------------------------------------------------------------------
(* Bookings: POST /api/bookings and PATCH /api/admin/bookings/:id *)

\* a destructured body field with its default
FieldOr(body, k, dflt) == IF k \in DOMAIN body THEN body[k] ELSE dflt

\* new Booking({...}) of the fields the handler destructured; the schema
\* defaults fill adminNote and rescheduledTo
NewBookingOfBody(userId, body) ==
    [ user |-> CastObjectId(FieldOr(body, "user", userId)),
      type |-> body.type,
      duration |-> body.duration,
      platform |-> body.platform,
      platformDetails |-> FieldOr(body, "platformDetails", ""),
      scheduledAt |-> ParseDate(body.scheduledAt),
      notes |-> FieldOr(body, "notes", ""),
      status |-> FieldOr(body, "status", "pending"),
      adminNote |-> FieldOr(body, "adminNote", ""),
      rescheduledTo |-> BannedUntilOf(FieldOr(body, "rescheduledTo", "null")) ]

NewBooking(userId, body) ==
    [ user |-> CastObjectId(userId),
      type |-> body.type,
      duration |-> body.duration,
      platform |-> body.platform,
      platformDetails |-> FieldOr(body, "platformDetails", ""),
      scheduledAt |-> ParseDate(body.scheduledAt),
      notes |-> FieldOr(body, "notes", ""),
      status |-> "pending",
      adminNote |-> "",
      rescheduledTo |-> NullDate ]

\* timestamps: true; createdAt is the time of the save, later for a later save
Timestamps(doc, stamp) == ("createdAt" :> stamp) @@ doc

\* sort({createdAt: -1})
RECURSIVE SortByCreatedAtDesc(_, _)
SortByCreatedAtDesc(bs, ids) ==
    IF ids = {} THEN <<>>
    ELSE LET newest == CHOOSE b \in ids : \A c \in ids : bs[c].createdAt <= bs[b].createdAt
         IN <<newest>> \o SortByCreatedAtDesc(bs, ids \ {newest})

BookingTypes == {"appointment", "session", "callback"}

CreateBodies ==
    { [ type |-> "session", duration |-> 30, platform |-> "zoom", scheduledAt |-> "day4",
        notes |-> "hi", status |-> "approved", user |-> "a", adminNote |-> "x",
        rescheduledTo |-> "day8" ],
      [type |-> "session", duration |-> 30, platform |-> "", scheduledAt |-> "day4"],
      [type |-> "callback", duration |-> 30, platform |-> "zoom", scheduledAt |-> "soon"],
      [type |-> "party", duration |-> 30, platform |-> "zoom", scheduledAt |-> "day4"] }

\* the status create answers with
CreateStatus(hdr, body, t) ==
    IF Auth(hdr, t).code # 0 THEN 401
    ELSE IF hdr.id = NoId THEN 401
    ELSE IF body.type = "" \/ body.duration = 0 \/ body.platform = "" \/ Falsy(body.scheduledAt)
    THEN 400
    ELSE IF IsNaNDate(ParseDate(body.scheduledAt)) THEN 400
    ELSE IF body.type \notin BookingTypes THEN 500      \* enum validator of save()
    ELSE 201

CreateBooking(hdr, body) ==
    LET code == CreateStatus(hdr, body, now)
        oid == BookingOidOrder[Cardinality(DOMAIN bookings) + 1]
    IN /\ Cardinality(DOMAIN bookings) < Len(BookingOidOrder)
       /\ bookings' = IF code = 201
                      THEN (oid :> Timestamps(NewBooking(hdr.id, body),
                                              Cardinality(DOMAIN bookings)))
                           @@ bookings
                      ELSE bookings
       /\ last' = [ Log("createBooking", code, hdr)
                      EXCEPT !.fields = IF code = 201 THEN DOMAIN bookings'[oid] ELSE {},
                             !.list = IF code = 201 THEN <<oid>> ELSE <<>> ]
       /\ UNCHANGED <<users, now, tokens, apc, areq, created, rpc, rreq, admitted, saves>>

\* GET /api/bookings/me: auth, find({user: userId}).sort({createdAt: -1}).lean()
OwnedByAnyone(bs, userId) == DOMAIN bs

OwnedBy(bs, userId) == {b \in DOMAIN bs : bs[b].user = CastObjectId(userId)}

ListOwnStatus(hdr, t) ==
    IF Auth(hdr, t).code # 0 THEN 401
    ELSE IF hdr.id = NoId THEN 401
    ELSE 200

ListOwn(hdr) ==
    LET code == ListOwnStatus(hdr, now)
        list == SortByCreatedAtDesc(bookings, OwnedBy(bookings, hdr.id))
    IN /\ last' = [ Log("listOwn", code, hdr)
                      EXCEPT !.list = IF code = 200 THEN list ELSE <<>>,
                             !.fields = IF code = 200
                                        THEN FieldsOf({bookings[list[i]] : i \in DOMAIN list})
                                        ELSE {} ]
       /\ UNCHANGED <<users, now, tokens, apc, areq, created, rpc, rreq, bookings, admitted, saves>>

\* the paths an assignment changed: mongoose marks a path modified only when
\* the value assigned differs from the one the document holds
ModifiedPaths(fetched, doc) == {f \in DOMAIN doc : doc[f] # fetched[f]}

\* a request between findById and save(): req.params.id, the fetched document
\* as the handler changed it in memory, and the paths mongoose marked modified
PendingSave(url, fetched, doc) ==
    [url |-> url, booking |-> doc, modified |-> ModifiedPaths(fetched, doc)]

BookingUrlIds == {"1", "4", "z"}

TransitionBodies ==
    { [action |-> "approve", adminNote |-> "ok", rescheduledTo |-> "null"],
      [action |-> "cancel", adminNote |-> "", rescheduledTo |-> "null"],
      [action |-> "reschedule", adminNote |-> "", rescheduledTo |-> "day4"],
      [action |-> "reschedule", adminNote |-> "ok", rescheduledTo |-> "day8"],
      [action |-> "reschedule", adminNote |-> "", rescheduledTo |-> "soon"],
      [action |-> "reschedule", adminNote |-> "", rescheduledTo |-> "null"],
      [action |-> "delete", adminNote |-> "", rescheduledTo |-> "null"] }

BookingLog(code, message) ==
    [NoLog EXCEPT !.op = "adminTransition", !.code = code, !.message = message]

\* a booking of a response with its owner populated
Populated(bs, us, b) == DOMAIN bs[b] \cup DOMAIN Populate(us, bs[b].user)

\* adminAuth in front of the router
BookingGuard(hdr) ==
    LET code == AdminAuth(hdr, users, now)
    IN /\ admitted + BagCardinality(saves) < NumBookReq
       /\ admitted' = IF code = 0 THEN admitted + 1 ELSE admitted
       /\ last' = Log("adminAuth", code, hdr)
       /\ UNCHANGED <<users, now, tokens, apc, areq, created, rpc, rreq, bookings, saves>>

\* GET /api/admin/bookings
AdminList(query) ==
    LET page == PageOf(query)
        limit == LimitOf(query, <<"5", "0">>)
        skip == SkipOf(page, limit)
        list == Paged(SortByCreatedAtDesc(bookings, DOMAIN bookings), skip, limit)
    IN /\ admitted > 0
       /\ admitted' = admitted - 1
       /\ \E code \in ListCodes(skip, limit) :
             last' = [ Log("adminList", code, NoHeader)
                         EXCEPT !.page = page, !.limit = limit, !.skip = skip,
                                !.list = IF code = 200 THEN list ELSE <<>>,
                                !.fields = IF code = 200
                                           THEN UNION { Populated(bookings, users, list[i]) :
                                                          i \in DOMAIN list }
                                           ELSE {} ]
       /\ UNCHANGED <<users, now, tokens, apc, areq, created, rpc, rreq, bookings, saves>>

\* the branch on action: the fetched document as the handler changes it in
\* memory, or the 400 it returns with
TransitionNoDateCheck(booking, action, adminNote, rescheduledTo) ==
    IF action = "approve"
    THEN [ code |-> 200, message |-> "Booking updated",
           booking |-> [booking EXCEPT !.status = "approved", !.adminNote = adminNote,
                                       !.rescheduledTo = NullDate] ]
    ELSE IF action = "cancel"
    THEN [ code |-> 200, message |-> "Booking updated",
           booking |-> [booking EXCEPT !.status = "cancelled", !.adminNote = adminNote,
                                       !.rescheduledTo = NullDate] ]
    ELSE IF action = "reschedule"
    THEN [ code |-> 200, message |-> "Booking updated",
           booking |-> [booking EXCEPT !.status = "rescheduled",
                                       !.rescheduledTo = BannedUntilOf(rescheduledTo),
                                       !.adminNote = adminNote] ]
    ELSE [code |-> 400, message |-> "Invalid action", booking |-> booking]

TransitionMovesSchedule(booking, action, adminNote, rescheduledTo) ==
    IF action = "reschedule" /\ ~Falsy(rescheduledTo) /\ ~IsNaNDate(ParseDate(rescheduledTo))
    THEN [ code |-> 200, message |-> "Booking updated",
           booking |-> [booking EXCEPT !.status = "rescheduled",
                                       !.scheduledAt = ParseDate(rescheduledTo),
                                       !.rescheduledTo = ParseDate(rescheduledTo),
                                       !.adminNote = adminNote] ]
    ELSE TransitionNoDateCheck(booking, action, adminNote, rescheduledTo)

Transition(booking, action, adminNote, rescheduledTo) ==
    IF action = "approve"
    THEN [ code |-> 200, message |-> "Booking updated",
           booking |-> [booking EXCEPT !.status = "approved", !.adminNote = adminNote,
                                       !.rescheduledTo = NullDate] ]
    ELSE IF action = "cancel"
    THEN [ code |-> 200, message |-> "Booking updated",
           booking |-> [booking EXCEPT !.status = "cancelled", !.adminNote = adminNote,
                                       !.rescheduledTo = NullDate] ]
    ELSE IF action = "reschedule"
    THEN IF Falsy(rescheduledTo) \/ IsNaNDate(ParseDate(rescheduledTo))
         THEN [code |-> 400, message |-> "Invalid rescheduledTo date", booking |-> booking]
         ELSE [ code |-> 200, message |-> "Booking updated",
                booking |-> [booking EXCEPT !.status = "rescheduled",
                                            !.rescheduledTo = ParseDate(rescheduledTo),
                                            !.adminNote = adminNote] ]
    ELSE [code |-> 400, message |-> "Invalid action", booking |-> booking]

\* isValid(id), findById(id), then the branch on action
BookingFetch(url, body) ==
    LET oid == CastObjectId(url)
        t == Transition(bookings[oid], body.action, body.adminNote, body.rescheduledTo)
    IN /\ admitted > 0
       /\ admitted' = admitted - 1
       /\ IF ~IsValidObjectId(url)
          THEN saves' = saves /\ last' = BookingLog(400, "Invalid booking id")
          ELSE IF oid \notin DOMAIN bookings
          THEN saves' = saves /\ last' = BookingLog(404, "Booking not found")
          ELSE IF t.code # 200
          THEN saves' = saves /\ last' = BookingLog(t.code, t.message)
          ELSE /\ saves' = saves (+) SetToBag({PendingSave(url, bookings[oid], t.booking)})
               /\ last' = last
       /\ UNCHANGED <<users, now, tokens, apc, areq, created, rpc, rreq, bookings>>

\* document.save() of a fetched document: $set of the modified paths, with no
\* version check
SaveNothing(stored, doc, modified) == stored

SaveModified(stored, doc, modified) ==
    [f \in DOMAIN stored |-> IF f \in modified THEN doc[f] ELSE stored[f]]

\* booking.save(), then the answer
BookingSave(r) ==
    LET oid == CastObjectId(r.url)
    IN /\ BagIn(r, saves)
       /\ bookings' = [bookings EXCEPT ![oid] = SaveModified(@, r.booking, r.modified)]
       /\ saves' = saves (-) SetToBag({r})
       /\ last' = [ BookingLog(200, "Booking updated")
                      EXCEPT !.url = r.url, !.fields = Populated(bookings', users, oid) ]
       /\ UNCHANGED <<users, now, tokens, apc, areq, created, rpc, rreq, admitted>>

-----------------------------------------------------------------------------
(* Specifications *)

InitUsers ==
    /\ users = SeedUsers
    /\ now = 0
    /\ tokens = [u \in DOMAIN SeedUsers |-> NoHeader]
    /\ apc = [p \in ModProcs |-> "idle"]
    /\ areq = [p \in ModProcs |-> NoId]
    /\ last = NoLog
    /\ created = Cardinality(DOMAIN SeedUsers)

InitAcct ==
    /\ rpc = [p \in AcctProcs |-> "idle"]
    /\ rreq = [p \in AcctProcs |-> NoAcctReq]

InitBook ==
    /\ bookings = <<>>
    /\ admitted = 0
    /\ saves = EmptyBag

Init == InitUsers /\ InitAcct /\ InitBook

HeldTokens == {tokens[u] : u \in DOMAIN tokens}

GuardHeaders == HeldTokens \cup {NoHeader, Forged}

Next ==
    \/ Tick
    \/ \E email \in LoginEmails, password \in LoginPasswords : Login(email, password)
    \/ \E p \in AdminProcs, hdr \in GuardHeaders : AdminGuard(p, hdr)
    \/ \E p \in AdminProcs, url \in UrlIds : DeleteUser(p, url)
    \/ \E p \in AdminProcs, url \in UrlIds, body \in BanBodies :
          BanUser(p, url, body.reason, body.until)
    \/ \E p \in AdminProcs, url \in UrlIds : UnbanUser(p, url)
    \/ \E p \in AdminProcs, url \in UrlIds, role \in RoleInputs : SetRole(p, url, role)

Spec == Init /\ [][Next]_vars

\* register requests alone
NextReg ==
    \/ \E p \in AcctProcs, body \in RegisterBodies : RegisterCheckEmail(p, body)
    \/ \E p \in AcctProcs : RegisterCheckUsername(p)
    \/ \E p \in AcctProcs : RegisterSave(p)

SpecReg == Init /\ [][NextReg]_vars

\* register and updateSelf requests; the seeded users are logged in
InitLoggedIn ==
    /\ users = SeedUsers
    /\ now = 0
    /\ tokens = [u \in DOMAIN SeedUsers |-> JwtSign(u, SeedUsers[u].role, 0)]
    /\ apc = [p \in ModProcs |-> "idle"]
    /\ areq = [p \in ModProcs |-> NoId]
    /\ last = NoLog
    /\ created = Cardinality(DOMAIN SeedUsers)

NextAcct ==
    \/ \E p \in AcctProcs, body \in RegisterBodies : RegisterCheckEmail(p, body)
    \/ \E p \in AcctProcs : RegisterCheckUsername(p)
    \/ \E p \in AcctProcs : RegisterSave(p)
    \/ \E p \in AcctProcs, hdr \in GuardHeaders, body \in UpdateBodies :
          UpdateCheckEmail(p, hdr, body)
    \/ \E p \in AcctProcs : UpdateCheckUsername(p)
    \/ \E p \in AcctProcs : UpdateWrite(p)

InitSessions == InitLoggedIn /\ InitAcct /\ InitBook

SpecAcct == InitSessions /\ [][NextAcct]_vars

\* bookings and their moderation; the seeded users are logged in, and one
\* booking is made
NextBook ==
    \/ \E hdr \in GuardHeaders, body \in CreateBodies :
          bookings = <<>> /\ CreateBooking(hdr, body)
    \/ \E hdr \in GuardHeaders : BookingGuard(hdr)
    \/ \E url \in BookingUrlIds, body \in TransitionBodies : BookingFetch(url, body)
    \/ \E r \in BagToSet(saves) : BookingSave(r)

SpecBook == InitSessions /\ [][NextBook]_vars

\* the requests of a signed-in user; b may have been banned since signing in
BannedSeedUsers == [SeedUsers EXCEPT !["b"] = BanUpdate(@, "spam", "day4")]

InitSelf ==
    /\ users \in {SeedUsers, BannedSeedUsers}
    /\ now = 0
    /\ tokens = [u \in DOMAIN SeedUsers |-> JwtSign(u, SeedUsers[u].role, 0)]
    /\ apc = [p \in ModProcs |-> "idle"]
    /\ areq = [p \in ModProcs |-> NoId]
    /\ last = NoLog
    /\ created = Cardinality(DOMAIN SeedUsers)
    /\ InitAcct
    /\ InitBook

SelfHeaders == {tokens["b"], NoHeader}

SelfRegisterBodies ==
    {body \in RegisterBodies : body.email = <<"C", " ">> /\ body.username = <<"u", "d">>}

SelfUpdateBodies == {body \in UpdateBodies : DOMAIN body # {"email"}}

SelfCreateBodies == {body \in CreateBodies : body.type = "session" /\ body.platform = "zoom"}

NextSelf ==
    \/ \E email \in {<<"b">>}, password \in {PwB, PwC} : Login(email, password)
    \/ \E p \in AcctProcs, body \in SelfRegisterBodies : RegisterCheckEmail(p, body)
    \/ \E p \in AcctProcs : RegisterCheckUsername(p)
    \/ \E p \in AcctProcs : RegisterSave(p)
    \/ \E p \in AcctProcs, body \in SelfUpdateBodies : UpdateCheckEmail(p, tokens["b"], body)
    \/ \E p \in AcctProcs : UpdateCheckUsername(p)
    \/ \E p \in AcctProcs : UpdateWrite(p)
    \/ \E p \in AcctProcs, body \in ChangePasswordBodies :
          ChangePasswordFetch(p, tokens["b"], body)
    \/ \E p \in AcctProcs : ChangePasswordSave(p)
    \/ \E hdr \in SelfHeaders : DeleteSelf(hdr)
    \/ \E hdr \in SelfHeaders : GetSelf(hdr)
    \/ \E hdr \in SelfHeaders, body \in SelfCreateBodies :
          bookings = <<>> /\ CreateBooking(hdr, body)

SpecSelf == InitSelf /\ [][NextSelf]_vars

\* every endpoint that answers with documents, one request body each
RespUpdateBodies == {body \in UpdateBodies : "isBanned" \in DOMAIN body}

RespBanBodies == {body \in BanBodies : body.reason = "spam"}

RespTransitionBodies == {body \in TransitionBodies : body.action = "approve"}

RespQueries == {query \in Queries : query.page = <<>> /\ query.limit = <<"3">>}

\* no request of the account, admin or booking router is between two of its
\* steps
AcctQuiet == \A p \in AcctProcs : rpc[p] \in {"idle", "done"}

AdminQuiet == \A p \in AdminProcs : apc[p] = "idle"

BookQuiet == admitted = 0 /\ saves = EmptyBag

\* the routers serve one after the other
NextResp ==
    \/ \E password \in {PwB} : Login(<<"b">>, password)
    \/ \E p \in AcctProcs, body \in SelfRegisterBodies :
          AdminQuiet /\ BookQuiet /\ RegisterCheckEmail(p, body)
    \/ \E p \in AcctProcs : RegisterCheckUsername(p)
    \/ \E p \in AcctProcs : RegisterSave(p)
    \/ \E p \in AcctProcs, body \in RespUpdateBodies :
          AdminQuiet /\ BookQuiet /\ UpdateCheckEmail(p, tokens["b"], body)
    \/ \E p \in AcctProcs : UpdateCheckUsername(p)
    \/ \E p \in AcctProcs : UpdateWrite(p)
    \/ GetSelf(tokens["b"])
    \/ \E p \in AdminProcs : AcctQuiet /\ BookQuiet /\ AdminGuard(p, tokens["a"])
    \/ \E p \in AdminProcs, query \in RespQueries : ListUsers(p, query)
    \/ \E p \in AdminProcs, body \in RespBanBodies : BanUser(p, "b", body.reason, body.until)
    \/ \E p \in AdminProcs : UnbanUser(p, "b")
    \/ \E p \in AdminProcs : SetRole(p, "b", "admin")
    \/ \E body \in SelfCreateBodies : bookings = <<>> /\ CreateBooking(tokens["b"], body)
    \/ ListOwn(tokens["b"])
    \/ AcctQuiet /\ AdminQuiet /\ BookingGuard(tokens["a"])
    \/ \E query \in RespQueries : AdminList(query)
    \/ \E body \in RespTransitionBodies : BookingFetch("1", body)
    \/ \E r \in BagToSet(saves) : BookingSave(r)

SpecResp == InitSessions /\ [][NextResp]_vars

\* the bookings of two users, their listings, and the users' leaving
OwnCreateBodies == {body \in CreateBodies : body.platform = "zoom"}

NextOwn ==
    \/ \E hdr \in GuardHeaders, body \in OwnCreateBodies : CreateBooking(hdr, body)
    \/ \E hdr \in GuardHeaders : ListOwn(hdr)
    \/ \E hdr \in HeldTokens : DeleteSelf(hdr)

SpecOwn == InitSessions /\ [][NextOwn]_vars

\* the two paged listings of the admin routers, under every query
NextPage ==
    \/ \E p \in AdminProcs, hdr \in GuardHeaders : AdminGuard(p, hdr)
    \/ \E p \in AdminProcs, query \in Queries : ListUsers(p, query)
    \/ \E hdr \in GuardHeaders : BookingGuard(hdr)
    \/ \E query \in Queries : AdminList(query)
    \/ \E hdr \in HeldTokens, body \in SelfCreateBodies : CreateBooking(hdr, body)

SpecPage == InitSessions /\ [][NextPage]_vars

\* admins moderating each other under their ids as the tokens spell them:
\* every request is a guard step, then the handler's write
ModUrlIds == {ObjectIdToString(u) : u \in DOMAIN SeedUsers}

NextMod ==
    \/ \E p \in ModProcs, hdr \in HeldTokens : AdminGuard(p, hdr)
    \/ \E p \in ModProcs, url \in ModUrlIds : DeleteUser(p, url)
    \/ \E p \in ModProcs, url \in ModUrlIds, body \in {b \in BanBodies : b.until = "null"} :
          BanUser(p, url, body.reason, body.until)
    \/ \E p \in ModProcs, url \in ModUrlIds, role \in Roles : SetRole(p, url, role)

SpecMod == InitSessions /\ [][NextMod]_vars

\* bans and unbans of b and of a registered user, next to register and to
\* updates of b whose bodies name moderation fields
BanUpdateBodies ==
    { [username |-> <<"u", "b">>, banReason |-> "x"],
      [email |-> <<"b">>, isBanned |-> TRUE],
      [username |-> <<"u", "c">>, isBanned |-> FALSE, bannedUntil |-> 4] }

NextBan ==
    \/ \E p \in AdminProcs : AdminGuard(p, tokens["a"])
    \/ \E p \in AdminProcs, url \in {"b", "c"}, body \in BanBodies :
          BanUser(p, url, body.reason, body.until)
    \/ \E p \in AdminProcs, url \in {"b", "c"} : UnbanUser(p, url)
    \/ \E p \in AcctProcs, body \in SelfRegisterBodies : RegisterCheckEmail(p, body)
    \/ \E p \in AcctProcs : RegisterCheckUsername(p)
    \/ \E p \in AcctProcs : RegisterSave(p)
    \/ \E p \in AcctProcs, body \in BanUpdateBodies : UpdateCheckEmail(p, tokens["b"], body)
    \/ \E p \in AcctProcs : UpdateCheckUsername(p)
    \/ \E p \in AcctProcs : UpdateWrite(p)

SpecBan == InitSessions /\ [][NextBan]_vars

\* creates whose duration is negative, zero or positive, and the listings
DurationBodies ==
    { [type |-> "session", duration |-> d, platform |-> "zoom", scheduledAt |-> "day4"] :
        d \in {-5, 0, 30} }

NextDur ==
    \/ \E hdr \in GuardHeaders, body \in DurationBodies : CreateBooking(hdr, body)
    \/ \E hdr \in GuardHeaders : ListOwn(hdr)

SpecDur == InitSessions /\ [][NextDur]_vars

-----------------------------------------------------------------------------
(* Claims on the admin guard, moderation and login (specification Spec) *)

\* C1: an admin who targets their own record with deleteUser, banUser or
\* setRole(member), under any URL spelling of their id that the store casts to
\* that id, is answered 400/403 and their record is left as it was.
C1_SelfProtection ==
    [][ \A p \in AdminProcs, url \in UrlIds :
          ( /\ apc[p] = "admitted"
            /\ areq[p] \in DOMAIN users
            /\ IsValidObjectId(url)
            /\ CastObjectId(url) = areq[p]
            /\ \/ DeleteUser(p, url)
               \/ \E body \in BanBodies : BanUser(p, url, body.reason, body.until)
               \/ SetRole(p, url, "member") )
          => /\ last'.code \in {400, 403}
             /\ areq[p] \in DOMAIN users'
             /\ users'[areq[p]] = users[areq[p]] ]_vars

\* C2: the admin guard admits a request exactly when the token verifies, carries
\* an id and the record now stored under that id has role admin; a verified
\* token of a user who is now a member gets 403, of a user now deleted 401.
C2_GuardRefetch ==
    [][ \A p \in AdminProcs, hdr \in GuardHeaders :
          AdminGuard(p, hdr)
          => LET verified == JwtVerify(hdr, now) /\ hdr.id # NoId
             IN /\ (apc'[p] = "admitted")
                      <=> ( /\ verified
                            /\ hdr.id \in DOMAIN users
                            /\ users[hdr.id].role = "admin" )
                /\ (verified /\ hdr.id \in DOMAIN users /\ users[hdr.id].role = "member")
                      => last'.code = 403
                /\ (verified /\ hdr.id \notin DOMAIN users) => last'.code = 401 ]_vars

\* C2 witness: an unexpired token issued with role admin was just rejected with
\* 403 because its user has since been demoted to member.
C2_Witness ==
    /\ last.op = "adminAuth"
    /\ last.code = 403
    /\ last.hdr.role = "admin"
    /\ JwtVerify(last.hdr, now)
    /\ last.hdr.id \in DOMAIN users
    /\ users[last.hdr.id].role = "member"

\* C3: a request made with the token of a user who is banned at the time the
\* guard runs is never admitted.
C3_GuardRejectsBanned ==
    [][ \A p \in AdminProcs, hdr \in GuardHeaders :
          ( /\ AdminGuard(p, hdr)
            /\ JwtVerify(hdr, now)
            /\ hdr.id \in DOMAIN users
            /\ users[hdr.id].role = "admin"
            /\ users[hdr.id].isBanned )
          => /\ apc'[p] # "admitted"
             /\ last'.code # 0 ]_vars

\* C4: while a user is banned no login for that user issues a token, also after
\* bannedUntil has passed; with the correct password the answer is 403 carrying
\* the stored reason and until; and only unbanUser clears isBanned.
C4_BanBlocksLogin ==
    [][ /\ \A email \in LoginEmails, password \in LoginPasswords :
             LET found == FindByEmail(users, email)
                 uid == CHOOSE i \in found : TRUE
             IN ( /\ last'.op = "login"        \* implied by Login, cheap to test
                  /\ last'.email = email
                  /\ found # {}
                  /\ users[uid].isBanned
                  /\ Login(email, password) )
                => /\ tokens' = tokens
                   /\ last'.code # 200
                   /\ BcryptCompare(password, users[uid].passwordHash)
                        => /\ last'.code = 403
                           /\ last'.reason = users[uid].banReason
                           /\ last'.until = IF users[uid].bannedUntil = NullDate
                                            THEN "null"
                                            ELSE ToISOString(users[uid].bannedUntil)
        /\ \A u \in DOMAIN users \cap DOMAIN users' :
             (users[u].isBanned /\ ~users'[u].isBanned)
             => \E p \in AdminProcs, url \in UrlIds :
                  UnbanUser(p, url) /\ CastObjectId(url) = u ]_vars

\* C4 witness: a banned user whose bannedUntil has passed logged in with the
\* correct password and was answered 403.
C4_Witness ==
    /\ last.op = "login"
    /\ last.code = 403
    /\ \E u \in FindByEmail(users, last.email) :
         /\ users[u].isBanned
         /\ users[u].bannedUntil # NullDate
         /\ now > users[u].bannedUntil
         /\ BcryptCompare(last.password, users[u].passwordHash)

\* C5: a login with both fields given whose password does not match the stored
\* hash, or whose email matches no account, is answered 401, whatever the
\* state of the account.
C5_GenericInvalidCredentials ==
    [][ \A email \in LoginEmails, password \in LoginPasswords :
          ( /\ Login(email, password)
            /\ email # <<>>
            /\ password # <<>>
            /\ \A u \in FindByEmail(users, email) :
                 ~BcryptCompare(password, users[u].passwordHash) )
          => /\ last'.code = 401
             /\ last'.message = "Invalid credentials." ]_vars

-----------------------------------------------------------------------------
(* Claims on register and updateSelf (specifications SpecReg, SpecAcct) *)

SeedEmails == {SeedUsers[u].email : u \in DOMAIN SeedUsers}

SeedUsernames == {SeedUsers[u].username : u \in DOMAIN SeedUsers}

Registers == {p \in AcctProcs : rreq[p].kind = "register"}

\* the valid register requests whose email is e once case and blanks are dropped
RegistersOf(e) ==
    {p \in Registers : RegisterValidate(rreq[p]).code = 0 /\ EmailSetter(rreq[p].email) = e}

\* C6: of the register requests for one email (case ignored) that the store
\* did not hold, with user names nobody else uses, exactly one is answered 201
\* and every other one 409, none 500, and one record holds that email; in any
\* interleaving of their steps.
C6_RegisterOnce ==
    /\ \A p \in Registers : rpc[p] = "done" => rreq[p].code # 500
    /\ \A p \in Registers :
         LET e == EmailSetter(rreq[p].email)
             R == RegistersOf(e)
             names == {UsernameSetter(rreq[q].username) : q \in R}
         IN ( /\ p \in R
              /\ Cardinality(R) >= 2
              /\ \A q \in R : rpc[q] = "done"
              /\ e \notin SeedEmails
              /\ names \cap SeedUsernames = {}
              /\ \A q \in Registers \ R : UsernameSetter(rreq[q].username) \notin names )
            => /\ Cardinality({q \in R : rreq[q].code = 201}) = 1
               /\ \A q \in R : rreq[q].code \in {201, 409}
               /\ Cardinality(FindByEmail(users, e)) = 1

\* C6 witness: two register requests for the same email both passed the findOne
\* checks; one inserted, the other was refused by the unique index and
\* answered 409 from the catch block.
C6_Witness ==
    \E p, q \in Registers :
        /\ p # q
        /\ EmailSetter(rreq[p].email) = EmailSetter(rreq[q].email)
        /\ rreq[p].email # rreq[q].email
        /\ rpc[p] = "done" /\ rreq[p].code = 201
        /\ rpc[q] = "done" /\ rreq[q].code = 409
        /\ rreq[q].message = "email already exists."

\* C7: no two stored users have the same lower-cased email, and no two have
\* the same username.
C7_UniqueEmailUsername ==
    \A i, j \in DOMAIN users :
        i # j => /\ ToLowerCase(users[i].email) # ToLowerCase(users[j].email)
                 /\ users[i].username # users[j].username

\* C7 witness: an updateSelf passed its uniqueness check for an email, a
\* register then took that email, and the update's write was refused.
C7_Witness ==
    \E p, q \in AcctProcs :
        /\ rreq[p].kind = "register" /\ rreq[p].code = 201
        /\ rreq[q].kind = "updateSelf" /\ rreq[q].code = 500
        /\ rreq[q].email \notin {Undefined, <<>>}
        /\ EmailSetter(rreq[q].email) = EmailSetter(rreq[p].email)

-----------------------------------------------------------------------------
(* Claims on adminTransition (specification SpecBook) *)

ValidTransition(body) ==
    \/ body.action \in {"approve", "cancel"}
    \/ /\ body.action = "reschedule"
       /\ ~Falsy(body.rescheduledTo)
       /\ ~IsNaNDate(ParseDate(body.rescheduledTo))

\* C8: an adminTransition with a valid action on an existing booking goes
\* through from every status, and when it has saved the stored booking has
\* status approved with rescheduledTo null (approve), cancelled with
\* rescheduledTo null (cancel), or rescheduled with rescheduledTo the timestamp
\* given (reschedule).
C8_TransitionResult ==
    [][ /\ \A url \in BookingUrlIds, body \in TransitionBodies :
             ( /\ BookingFetch(url, body)
               /\ IsValidObjectId(url)
               /\ CastObjectId(url) \in DOMAIN bookings
               /\ ValidTransition(body) )
             => BagCardinality(saves') = BagCardinality(saves) + 1
        /\ \A r \in BagToSet(saves) :
             BookingSave(r)
             => LET b == bookings'[CastObjectId(r.url)]
                IN /\ last'.code = 200
                   /\ b.status = r.booking.status
                   /\ b.rescheduledTo = r.booking.rescheduledTo
                   /\ b.status \in {"approved", "cancelled"} => b.rescheduledTo = NullDate
                   /\ b.status = "rescheduled" => b.rescheduledTo # NullDate ]_vars

\* C9: every stored booking with a rescheduledTo has status rescheduled.
C9_RescheduledToOnlyWhileRescheduled ==
    \A b \in DOMAIN bookings :
        bookings[b].rescheduledTo # NullDate => bookings[b].status = "rescheduled"

\* C10: an adminTransition that fails leaves every stored booking as it was and
\* queues no save: a malformed id is answered 400, a well-formed id of no
\* booking 404, and on an existing booking a reschedule without a parseable
\* rescheduledTo, or an action other than approve, cancel and reschedule, 400.
C10_FailureLeavesBookings ==
    [][ \A url \in BookingUrlIds, body \in TransitionBodies :
          BookingFetch(url, body)
          => LET found == IsValidObjectId(url) /\ CastObjectId(url) \in DOMAIN bookings
             IN /\ ~IsValidObjectId(url) => last'.code = 400
                /\ (IsValidObjectId(url) /\ ~found) => last'.code = 404
                /\ (found /\ ~ValidTransition(body)) => last'.code = 400
                /\ (~found \/ ~ValidTransition(body))
                     => /\ last'.op = "adminTransition"
                        /\ bookings' = bookings
                        /\ saves' = saves ]_vars

\* C10 witness: a reschedule of a stored, already rescheduled booking was just
\* refused for its rescheduledTo, and the booking still holds its earlier date.
C10_Witness ==
    /\ last.op = "adminTransition"
    /\ last.code = 400
    /\ last.message = "Invalid rescheduledTo date"
    /\ \E b \in DOMAIN bookings :
         bookings[b].status = "rescheduled" /\ bookings[b].rescheduledTo # NullDate

-----------------------------------------------------------------------------
(* Claims on the requests of a signed-in user (specification SpecSelf) *)

\* C11: no step of register, login, getSelf, updateSelf, changePassword,
\* deleteSelf or booking create changes the role, isBanned, banReason or
\* bannedUntil of a user that exists before and after it, and a user that a
\* step creates has role member and is not banned.
C11_RoleAndBanFrame ==
    [][ /\ \A u \in DOMAIN users \cap DOMAIN users' :
             /\ users'[u].role = users[u].role
             /\ users'[u].isBanned = users[u].isBanned
             /\ users'[u].banReason = users[u].banReason
             /\ users'[u].bannedUntil = users[u].bannedUntil
        /\ \A u \in DOMAIN users' \ DOMAIN users :
             users'[u].role = "member" /\ ~users'[u].isBanned ]_vars

\* C11 witness: a register created a user, and an updateSelf of banned member b
\* whose body also carried isBanned=false was answered 200; b is still banned.
C11_Witness ==
    /\ DOMAIN users \ DOMAIN SeedUsers # {}
    /\ "b" \in DOMAIN users
    /\ users["b"].isBanned
    /\ users["b"].role = "member"
    /\ \E p \in AcctProcs :
         /\ rreq[p].kind = "updateSelf"
         /\ rreq[p].code = 200
         /\ rreq[p].caller = "b"
         /\ rreq[p].username = <<"u", "c">>

\* C12: a step changes the password hash of a stored user only when it is the
\* save of a changePassword of that user with a new password of 8 characters
\* or more; a changePassword reaches its save only with a token that verifies
\* for an existing user and an old password that matches the hash it fetched;
\* with an empty field or a short new password it is answered 400, with a wrong
\* old password 401.
C12_HashChangesByChangePassword ==
    [][ /\ \A u \in DOMAIN users \cap DOMAIN users' :
             users'[u].passwordHash # users[u].passwordHash
             => \E p \in AcctProcs :
                  /\ ChangePasswordSave(p)
                  /\ rreq[p].kind = "changePassword"
                  /\ rreq[p].caller = u
                  /\ Len(rreq[p].password) >= 8
                  /\ users'[u].passwordHash = BcryptHash(rreq[p].password)
        /\ \A p \in AcctProcs, body \in ChangePasswordBodies :
             ChangePasswordFetch(p, tokens["b"], body)
             => LET hdr == tokens["b"]
                    known == JwtVerify(hdr, now) /\ hdr.id \in DOMAIN users
                IN /\ rpc'[p] = "pwSave"
                        <=> /\ known
                            /\ body.oldPassword # <<>>
                            /\ Len(body.newPassword) >= 8
                            /\ BcryptCompare(body.oldPassword, users[hdr.id].passwordHash)
                   /\ (known /\ (body.oldPassword = <<>> \/ Len(body.newPassword) < 8))
                        => rreq'[p].code = 400
                   /\ ( /\ known
                        /\ body.oldPassword # <<>>
                        /\ Len(body.newPassword) >= 8
                        /\ ~BcryptCompare(body.oldPassword, users[hdr.id].passwordHash) )
                        => rreq'[p].code = 401 ]_vars

\* C12 witness: one changePassword of b was refused for its old password, another
\* was answered 200 and b's stored hash is the hash of its new password.
C12_Witness ==
    /\ "b" \in DOMAIN users
    /\ users["b"].passwordHash # SeedUsers["b"].passwordHash
    /\ \E p, q \in AcctProcs :
         /\ rreq[p].kind = "changePassword" /\ rreq[p].code = 200
         /\ users["b"].passwordHash = BcryptHash(rreq[p].password)
         /\ rreq[q].kind = "changePassword" /\ rreq[q].code = 401
         /\ rreq[q].message = "Old password incorrect."

\* C13 as stated: in the state a successful changePassword leaves, a login of
\* that user with the new password is answered 200 and a login with the old
\* password 401.
C13_RoundTrip ==
    [][ \A p \in AcctProcs :
          (ChangePasswordSave(p) /\ rreq'[p].code = 200)
          => LET user == users'[rreq[p].caller]
             IN /\ LoginStatus(user.email, rreq[p].password, users', now') = 200
                /\ LoginStatus(user.email, rreq[p].oldPassword, users', now') = 401 ]_vars

\* C13 amended: the same, for a user who is not banned and a new password that
\* differs from the old one.
C13_RoundTripUnbanned ==
    [][ \A p \in AcctProcs :
          ( /\ ChangePasswordSave(p)
            /\ rreq'[p].code = 200
            /\ ~users'[rreq[p].caller].isBanned
            /\ rreq[p].password # rreq[p].oldPassword )
          => LET user == users'[rreq[p].caller]
             IN /\ LoginStatus(user.email, rreq[p].password, users', now') = 200
                /\ LoginStatus(user.email, rreq[p].oldPassword, users', now') = 401 ]_vars

\* C13 witness: b, not banned, changed the password from PwB to PwC, then logged
\* in with PwC and received a token.
C13_Witness ==
    /\ last.op = "login"
    /\ last.code = 200
    /\ last.password = PwC
    /\ "b" \in DOMAIN users
    /\ ~users["b"].isBanned
    /\ users["b"].passwordHash = BcryptHash(PwC)
    /\ \E p \in AcctProcs :
         /\ rreq[p].kind = "changePassword"
         /\ rreq[p].code = 200
         /\ rreq[p].oldPassword = PwB
         /\ rreq[p].password = PwC

-----------------------------------------------------------------------------
(* Claims on updateSelf conflicts (specification SpecAcct) *)

\* C14: an updateSelf whose email or username is held by another user's record
\* when a step of it reads or writes the store is answered 409 at that step and
\* changes no record, also when the value was taken after its uniqueness
\* checks; an updateSelf to the caller's own current email or username is not
\* answered 409.
C14_UpdateConflict ==
    [][ \A p \in AcctProcs :
          /\ \A hdr \in GuardHeaders, body \in UpdateBodies :
               ( /\ UpdateCheckEmail(p, hdr, body)
                 /\ Auth(hdr, now).code = 0
                 /\ "email" \in DOMAIN body
                 /\ body.email # <<>>
                 /\ FindByEmail(users, body.email) \ {hdr.id} # {} )
               => rreq'[p].code = 409 /\ users' = users
          /\ ( /\ UpdateCheckUsername(p)
               /\ rreq[p].username \notin {Undefined, <<>>}
               /\ FindByUsername(users, rreq[p].username) \ {rreq[p].caller} # {} )
             => rreq'[p].code = 409 /\ users' = users
          /\ ( /\ UpdateWrite(p)
               /\ rreq[p].caller \in DOMAIN users )
             => LET doc == ApplyUpdates(users[rreq[p].caller], rreq[p])
                IN /\ DuplicateKey(users, rreq[p].caller, doc.email, doc.username)
                        => rreq'[p].code = 409 /\ users' = users
                   /\ doc = users[rreq[p].caller] => rreq'[p].code = 200 ]_vars

-----------------------------------------------------------------------------
(* Claims on the content of responses (specification SpecResp) *)

\* C15: no response of any endpoint (register, login, getSelf, updateSelf,
\* listUsers, banUser, unbanUser, setRole, booking create, listOwn, adminList,
\* adminTransition with its populated owner) carries a passwordHash field,
\* whether the request succeeded or failed.
C15_NoPasswordHash ==
    /\ "passwordHash" \notin last.fields
    /\ \A p \in AcctProcs : "passwordHash" \notin rreq[p].fields

\* a listing of users and a populated booking have been answered
C15_Witness ==
    /\ last.op \in {"listUsers", "adminTransition"}
    /\ last.code = 200
    /\ "email" \in last.fields
    /\ \E p \in AcctProcs : rreq[p].code = 201 /\ "email" \in rreq[p].fields

-----------------------------------------------------------------------------
(* Claims on the bookings of a user (specifications SpecBook and SpecOwn) *)

\* C16: a booking that create adds has status pending, an empty adminNote, no
\* rescheduledTo and the id of the token as its owner, whatever the body
\* carries for status, user, adminNote and rescheduledTo; a create that does
\* not answer 201 adds no booking.
C16_CreatedBooking ==
    [][ \A hdr \in GuardHeaders, body \in CreateBodies :
          ( /\ last'.op = "createBooking"
            /\ last'.hdr = hdr
            /\ CreateBooking(hdr, body) )
          => LET added == DOMAIN bookings' \ DOMAIN bookings
             IN /\ \A b \in added :
                     /\ bookings'[b].status = "pending"
                     /\ bookings'[b].adminNote = ""
                     /\ bookings'[b].rescheduledTo = NullDate
                     /\ bookings'[b].user = hdr.id
                /\ \A b \in DOMAIN bookings : bookings'[b] = bookings[b]
                /\ last'.code = 201 => Cardinality(added) = 1
                /\ last'.code # 201 => added = {} ]_vars

\* b's create, whose body named owner a and status approved, has been answered 201
C16_Witness ==
    /\ last.op = "createBooking"
    /\ last.code = 201
    /\ last.hdr.id = "b"
    /\ \E b \in DOMAIN bookings : bookings[b].notes = "hi" /\ bookings[b].user = "b"

\* C17: listOwn with the token of user u answers with exactly the bookings
\* whose owner is u, each once, ordered from the newest to the oldest.
C17_ListOwn ==
    [][ \A hdr \in GuardHeaders :
          ( /\ last'.op = "listOwn"
            /\ last'.hdr = hdr
            /\ last'.code = 200
            /\ ListOwn(hdr) )
          => LET list == last'.list
             IN /\ {list[i] : i \in DOMAIN list}
                     = {b \in DOMAIN bookings : bookings[b].user = hdr.id}
                /\ \A i, j \in DOMAIN list :
                     i < j => bookings[list[i]].createdAt > bookings[list[j]].createdAt ]_vars

\* a user who owns two of three bookings has listed them
C17_Witness ==
    /\ last.op = "listOwn"
    /\ last.code = 200
    /\ Len(last.list) = 2
    /\ \E b \in DOMAIN bookings : bookings[b].user # last.hdr.id

\* C19: the owner of every stored booking is a stored user, also after a
\* create with the token of a deleted user and after deleteSelf or deleteUser.
C19_OwnerExists == \A b \in DOMAIN bookings : bookings[b].user \in DOMAIN users

\* C20: no step removes a booking or changes its owner, type, duration,
\* platform, platformDetails, scheduledAt or notes; a booking changes only in
\* status, adminNote and rescheduledTo, only by the save of an adminTransition,
\* and a request reaches that handler only through the admin guard it passed.
C20_BookingFrame ==
    [][ /\ DOMAIN bookings \subseteq DOMAIN bookings'
        /\ \A b \in DOMAIN bookings :
             /\ \A f \in DOMAIN bookings[b] \ {"status", "adminNote", "rescheduledTo"} :
                  bookings'[b][f] = bookings[b][f]
             /\ bookings'[b] # bookings[b]
                  => \E r \in BagToSet(saves) : CastObjectId(r.url) = b /\ BookingSave(r)
        /\ BagCardinality(saves') > BagCardinality(saves) => admitted' = admitted - 1
        /\ admitted' > admitted
             => \E hdr \in GuardHeaders :
                  AdminAuth(hdr, users, now) = 0 /\ BookingGuard(hdr) ]_vars

\* an adminTransition has rescheduled a booking and left its schedule alone
C20_Witness ==
    /\ last.op = "adminTransition"
    /\ last.code = 200
    /\ \E b \in DOMAIN bookings :
         /\ bookings[b].status = "rescheduled"
         /\ bookings[b].rescheduledTo = 8
         /\ bookings[b].scheduledAt = 4

-----------------------------------------------------------------------------
(* Claims on the paged listings (specification SpecPage) *)

\* C18: whatever limit and page a listing is asked with - absent, any integer,
\* a string that is no number - the limit it uses is a number from 5 to 100,
\* the page a number of at least 1, and the skip a number of at least 0.
C18_PageBounds ==
    last.op \in {"listUsers", "adminList"}
    => /\ ~last.limit.nan /\ last.limit.val \in 5..100
       /\ ~last.page.nan /\ last.page.val >= 1
       /\ ~last.skip.nan /\ last.skip.val >= 0

-----------------------------------------------------------------------------
(* Claims on repeated and concurrent moderation (specifications Spec,       *)
(* SpecBook and SpecMod)                                                    *)

\* C21: a moderation request that was answered 200 - unbanUser, banUser,
\* setRole, or the save of an adminTransition - is idempotent: the same actor
\* sending the same request again, right after, is admitted and answered 200,
\* and the stored record stays as the first request left it.  (The first
\* adminTransition is one that saves what it would fetch now.)
C21_Idempotent ==
    [][ /\ \A p \in AdminProcs, url \in UrlIds :
             LET actor == areq[p]
                 again == JwtSign(actor, "admin", now')
                 oid == CastObjectId(url)
             IN /\ \A body \in BanBodies :
                     ( /\ last'.op = "banUser" /\ last'.code = 200
                       /\ BanUser(p, url, body.reason, body.until) )
                     => /\ AdminAuth(again, users', now') = 0
                        /\ BanUserStatus(actor, url, body.until, users') = 200
                        /\ BanUpdate(users'[oid], body.reason, body.until) = users'[oid]
                /\ ( /\ last'.op = "unbanUser" /\ last'.code = 200
                     /\ UnbanUser(p, url) )
                   => /\ AdminAuth(again, users', now') = 0
                      /\ UnbanUserStatus(url, users') = 200
                      /\ UnbanUpdate(users'[oid]) = users'[oid]
                /\ \A role \in RoleInputs :
                     ( /\ last'.op = "setRole" /\ last'.code = 200
                       /\ SetRole(p, url, role) )
                     => /\ AdminAuth(again, users', now') = 0
                        /\ SetRoleStatus(actor, url, role, users') = 200
                        /\ [users'[oid] EXCEPT !.role = role] = users'[oid]
        /\ \A r \in BagToSet(saves), body \in TransitionBodies :
             LET oid == CastObjectId(r.url)
                 first == Transition(bookings[oid], body.action, body.adminNote,
                                     body.rescheduledTo)
                 second == Transition(bookings'[oid], body.action, body.adminNote,
                                      body.rescheduledTo)
             IN ( /\ first.code = 200
                  /\ r = PendingSave(r.url, bookings[oid], first.booking)
                  /\ BookingSave(r) )
                => /\ second.code = 200
                   /\ SaveModified(bookings'[oid], second.booking,
                                    ModifiedPaths(bookings'[oid], second.booking))
                        = bookings'[oid] ]_vars

\* C22: while admins delete, ban and demote - each request a guard step that
\* re-fetches the actor, then a write step - some user with role admin is
\* always left; two admins cannot demote or delete each other.
C22_AdminRemains == \E u \in DOMAIN users : users[u].role = "admin"

\* C23: pending is only the first status.  The save of an adminTransition
\* leaves its booking approved, cancelled or rescheduled, and a booking that
\* is one of the three is one of the three after every step: it is never
\* pending again.
C23_NeverPendingAgain ==
    [][ \A b \in DOMAIN bookings :
          ( \/ bookings[b].status # "pending"
            \/ \E r \in BagToSet(saves) : CastObjectId(r.url) = b /\ BookingSave(r) )
          => /\ b \in DOMAIN bookings'
             /\ bookings'[b].status \in {"approved", "cancelled", "rescheduled"} ]_vars

\* two transitions of one booking have been saved, the later one an approval
\* fetched before the reschedule was saved
C23_Witness ==
    /\ last.op = "adminTransition"
    /\ last.code = 200
    /\ \E b \in DOMAIN bookings :
         bookings[b].status = "approved" /\ bookings[b].rescheduledTo # NullDate

-----------------------------------------------------------------------------
(* Claims on the stored moderation fields (specification SpecBan) *)

\* C24: every stored user who is not banned has an empty banReason and no
\* bannedUntil, and every stored user who is banned has a banReason that is
\* not empty - the default when the admin gave none.
C24_BanFieldsAgree ==
    \A u \in DOMAIN users :
        IF users[u].isBanned
        THEN users[u].banReason # ""
        ELSE users[u].banReason = "" /\ users[u].bannedUntil = NullDate

\* b was banned with no reason given, a registered user was banned and
\* unbanned, and an update of b naming moderation fields was answered 200
C24_Witness ==
    /\ users["b"].isBanned
    /\ users["b"].banReason = DefaultBanReason
    /\ "c" \in DOMAIN users
    /\ last.op = "unbanUser" /\ last.code = 200 /\ last.url = "c"
    /\ \E p \in AcctProcs : rreq[p].kind = "updateSelf" /\ rreq[p].code = 200

-----------------------------------------------------------------------------
(* Claims on the duration of a booking (specification SpecDur) *)

\* C25: every stored booking has a duration above zero: create refuses a
\* duration that is zero, negative or missing and stores nothing for it.
C25_PositiveDuration == \A b \in DOMAIN bookings : bookings[b].duration > 0

====
